---- MODULE Spec2Model ----
(***************************************************************************)
(* Setup Recommendation Engine of SERunner: performer matching             *)
(* (routers/setups.py), response parsing (services/setup_generator.py),    *)
(* usage quota (models/subscription.py, services/usage_tracker.py,         *)
(* routers/billing.py) and the generate / refresh / learn handlers.        *)
(***************************************************************************)
EXTENDS Integers, Sequences, FiniteSets, TLC

VARIABLES
  request_performers,  \* calculate_performer_match: first argument
  past_performers,     \* calculate_performer_match: second argument
  match_out,           \* its return value (quality, score), or NotRun
  response,            \* SetupGenerator.generate: the text returned by Claude
  norm_out,            \* how generate() leaves its parsing step, or NotRun
  setups,              \* table setups, in order of creation (id = position)
  profiles,            \* table instrument_profiles: the value keys stored
  sub,                 \* the requester's row of table subscriptions
  pc,                  \* per handler invocation: where it stands
  rq,                  \* per handler invocation: the request it serves
  sess,                \* per handler invocation: its local `subscription`
  setup_data,          \* per handler invocation: what generator.generate returned
  gate_out,            \* check_generation_allowed / check_learning_allowed: outcome
  check_request,       \* check_matching_setup: the request
  check_out,           \* check_matching_setup: the MatchingSetupResponse
  billing_event,       \* stripe_webhook: the event handled last
  gear,                \* table gear: the requester's items, quantity per item
  loans,               \* table gear_loans, in order of creation
  gear_out,            \* get_gear: quantity_available per item, or not run
  update_request,      \* update_setup: the request
  update_out,          \* update_setup: the HTTP status, or NotRun
  history_out          \* generate_setup / refresh_setup: the rated history handed on

matchVars == <<request_performers, past_performers, match_out>>
normVars == <<response, norm_out>>
gateVars == <<gate_out>>
checkVars == <<check_request, check_out>>
dbVars == <<setups, profiles, sub>>
reqVars == <<pc, rq, sess, setup_data>>
billVars == <<billing_event>>
gearVars == <<gear, loans, gear_out>>
updVars == <<update_request, update_out>>
histVars == <<history_out>>
vars == <<matchVars, normVars, gateVars, billVars, gearVars, updVars, checkVars, histVars, histVars, dbVars, reqVars>>

NotRun == "not_run"

\* no webhook event has been handled
NoBillingEvent == [kind |-> "none", period_start |-> 0, period_end |-> 0]

BillIdle == billing_event = NoBillingEvent

GearNotRun == [run |-> FALSE, quantity_available |-> <<>>]

GearIdle == gear = <<>> /\ loans = <<>> /\ gear_out = GearNotRun

NoUpdate == [setup_id |-> 0, rating |-> [given |-> "unset", value |-> 0],
             notes |-> "unset", is_shared |-> "unset"]

UpdateIdle == update_request = NoUpdate /\ update_out = NotRun

\* no request has handed a history to the generator
HistoryNotRun ==
  [kind |-> NotRun, user |-> "u1", location_id |-> "L1", setup_id |-> 0,
   past_setups |-> <<>>, high_rated |-> <<>>, lower_rated |-> <<>>,
   prompt |-> NotRun, status |-> NotRun]

HistIdle == history_out = HistoryNotRun
\* a result that has not been computed yet
MatchNotRun == <<NotRun, [num |-> 0, den |-> 1]>>

(***************************************************************************)
(* Bounds of the model.                                                    *)
(***************************************************************************)
MaxReqRows == 2      \* rows in a requested lineup
MaxPastRows == 3     \* rows in a stored lineup
MaxCount == 2        \* performers per row
MaxLen == 4          \* tokens in a response text
NumReqs == 2         \* handler invocations in flight at once
MaxSetups == 2       \* rows of table setups
MaxUsed == 4         \* learning_used at which no further learning starts
MaxPeriod == 1       \* billing periods named by webhook events
MaxCounter == 21     \* usage counters of the rows handed to the quota check
MaxStored == 2       \* rows of table setups handed to the match check
MaxGear == 2         \* rows of table gear
MaxQuantity == 2     \* items owned per row, and items per loan
MaxLoans == 2        \* rows of table gear_loans
MaxRated == 1        \* rows of table setups handed to the update handler

Types == {"vocal", "tabla", "flute"}

\* performer rows of a lineup: vocals in every count, the instruments single
Rows ==
  [type : {"vocal"}, count : 1..MaxCount] \cup [type : Types \ {"vocal"}, count : {1}]

RECURSIVE SeqsUpTo(_, _)
SeqsUpTo(S, n) ==
  IF n = 0 THEN {<<>>}
  ELSE LET shorter == SeqsUpTo(S, n - 1)
       IN  shorter \cup {Append(s, x) : s \in {t \in shorter : Len(t) = n - 1}, x \in S}

(***************************************************************************)
(* Scores are Python floats in the source; the model keeps them as exact   *)
(* fractions num/den and compares by cross-multiplication.                 *)
(***************************************************************************)
Frac(n, d) == [num |-> n, den |-> d]
FracEq(a, b) == a.num * b.den = b.num * a.den
FracLt(a, b) == a.num * b.den < b.num * a.den
FracLe(a, b) == a.num * b.den <= b.num * a.den

Max(a, b) == IF a >= b THEN a ELSE b

(***************************************************************************)
(* routers/setups.py: calculate_performer_match                            *)
(***************************************************************************)
EmptyDict == [t \in {} |-> 0]

\* line 95 / 101 with the accumulation dropped (dict[ptype] = count)
RECURSIVE TypeCountsLastWins(_)
TypeCountsLastWins(performers) ==
  IF performers = <<>> THEN EmptyDict
  ELSE LET n    == Len(performers)
           prev == TypeCountsLastWins(SubSeq(performers, 1, n - 1))
           p    == performers[n]
       IN  [t \in (DOMAIN prev) \cup {p.type} |->
              IF t = p.type THEN p.count ELSE prev[t]]

\* the loops of lines 91-101: dict from type to summed count
RECURSIVE TypeCounts(_)
TypeCounts(performers) ==
  IF performers = <<>> THEN EmptyDict
  ELSE LET n    == Len(performers)
           prev == TypeCounts(SubSeq(performers, 1, n - 1))
           p    == performers[n]
       IN  [t \in (DOMAIN prev) \cup {p.type} |->
              (IF t \in DOMAIN prev THEN prev[t] ELSE 0)
              + (IF t = p.type THEN p.count ELSE 0)]

\* line 109 with the score of the partial branch
SimilarResultLowScore == <<"similar", Frac(6, 10)>>

\* line 115 with a strict comparison
OverlapReachedStrict(common, larger) == 2 * common > larger

\* line 105 with a score above 1
ExactResultAboveOne == <<"exact", Frac(11, 10)>>

\* line 104: request_types == past_types
ExactResult == <<"exact", Frac(1, 1)>>

\* line 109
SimilarResult == <<"similar", Frac(8, 10)>>

\* line 115: overlap_ratio >= 0.5, with overlap_ratio = common / larger
OverlapReached(common, larger) == 2 * common >= larger

\* line 116: overlap_ratio * 0.6
PartialResult(common, larger) == <<"partial", Frac(6 * common, 10 * larger)>>

\* lines 89 and 118
NoneResult == <<"none", Frac(0, 1)>>

CalculatePerformerMatch(req, past) ==
  IF past = <<>> THEN NoneResult
  ELSE
  LET request_types == TypeCounts(req)
      past_types    == TypeCounts(past)
      common_types  == (DOMAIN request_types) \cap (DOMAIN past_types)
      larger        == Max(Cardinality(DOMAIN request_types),
                           Cardinality(DOMAIN past_types))
  IN  IF request_types = past_types THEN ExactResult
      ELSE IF DOMAIN request_types = DOMAIN past_types THEN SimilarResult
      ELSE IF common_types # {} /\ OverlapReached(Cardinality(common_types), larger)
           THEN PartialResult(Cardinality(common_types), larger)
      ELSE NoneResult

(***************************************************************************)
(* services/setup_generator.py: the parsing step of SetupGenerator.generate *)
(*                                                                         *)
(* A text is a sequence of tokens:                                         *)
(*   "F"  the fence ```            "J"  the word json                      *)
(*   "O"  a JSON object with the six expected keys                         *)
(*   "E"  the JSON object {}       "A"  a JSON array (valid, not an object)*)
(*   "P"  prose (not JSON)         "W"  whitespace                         *)
(*   "B"  the start of an object, up to the opening quote of the value of  *)
(*        its only key, instructions                                       *)
(*   "C"  the closing quote of that value and the end of the object        *)
(* so that "```json" is <<"F", "J">>.                                      *)
(***************************************************************************)
Tokens == {"F", "J", "O", "E", "A", "P", "W", "B", "C"}

Texts == SeqsUpTo(Tokens, MaxLen)

\* Python None in a text column
NoneText == <<"None">>

\* line 608: the literal used for an empty response
NoResponseText == <<"No response from Claude API">>

\* pat in s
Contains(s, pat) ==
  \E i \in 1..(Len(s) - Len(pat) + 1) : SubSeq(s, i, i + Len(pat) - 1) = pat

\* s.index(pat), as a 1-based token position (only used when pat in s)
Index(s, pat) ==
  CHOOSE i \in 1..(Len(s) - Len(pat) + 1) :
    /\ SubSeq(s, i, i + Len(pat) - 1) = pat
    /\ \A k \in 1..(i - 1) : SubSeq(s, k, k + Len(pat) - 1) # pat

\* s.rindex(pat)
RIndex(s, pat) ==
  CHOOSE i \in 1..(Len(s) - Len(pat) + 1) :
    /\ SubSeq(s, i, i + Len(pat) - 1) = pat
    /\ \A k \in (i + 1)..(Len(s) - Len(pat) + 1) : SubSeq(s, k, k + Len(pat) - 1) # pat

\* s.strip()
RECURSIVE Strip(_)
Strip(s) ==
  IF s = <<>> THEN s
  ELSE IF Head(s) = "W" THEN Strip(Tail(s))
  ELSE IF s[Len(s)] = "W" THEN Strip(SubSeq(s, 1, Len(s) - 1))
  ELSE s

\* the dictionaries the two object tokens stand for; every value is written
\* as a text, a settings dictionary as a one-token text
FullPayload ==
  [channel_config |-> <<"channels">>, eq_settings |-> <<"eq">>,
   compression_settings |-> <<"compression">>, fx_settings |-> <<"fx">>,
   instructions |-> <<"P">>, troubleshooting_tips |-> <<"P">>]

EmptyPayload == [k \in {} |-> NoneText]

\* "B" text "C" is an object with the single key instructions whose string
\* value is the text between them; a string may hold any token but the two
\* that delimit it
IsInstructionsObject(t) ==
  /\ Len(t) >= 2
  /\ t[1] = "B"
  /\ t[Len(t)] = "C"
  /\ \A i \in 2..(Len(t) - 1) : t[i] \notin {"B", "C"}

\* json.loads(json_text): [kind |-> "dict" | "other" | "error", value]
JsonLoads(json_text) ==
  LET t == Strip(json_text)
  IN  IF t = <<"O">> THEN [kind |-> "dict", value |-> FullPayload]
      ELSE IF t = <<"E">> THEN [kind |-> "dict", value |-> EmptyPayload]
      ELSE IF IsInstructionsObject(t)
      THEN [kind |-> "dict", value |-> [instructions |-> SubSeq(t, 2, Len(t) - 1)]]
      ELSE IF t = <<"A">> THEN [kind |-> "other", value |-> EmptyPayload]
      ELSE [kind |-> "error", value |-> EmptyPayload]

\* lines 584-592: the text handed to json.loads
ExtractJsonText(resp) ==
  IF Contains(resp, <<"F", "J">>)
  THEN LET json_start == Index(resp, <<"F", "J">>) + 2
           json_end   == RIndex(resp, <<"F">>)
       IN  Strip(SubSeq(resp, json_start, json_end - 1))
  ELSE IF Contains(resp, <<"F">>)
  THEN LET json_start == Index(resp, <<"F">>) + 1
           json_end   == RIndex(resp, <<"F">>)
       IN  Strip(SubSeq(resp, json_start, json_end - 1))
  ELSE resp

\* lines 603-610 with the extracted text stripped into the fallback
FallbackDataStripped(raw_response) ==
  [channel_config |-> <<"{}">>, eq_settings |-> <<"{}">>,
   compression_settings |-> <<"{}">>, fx_settings |-> <<"{}">>,
   instructions |-> IF raw_response # <<>> THEN Strip(raw_response) ELSE NoResponseText,
   troubleshooting_tips |-> <<"Error parsing JSON response">>]

\* lines 603-610: the dictionary returned when json.loads fails
FallbackData(raw_response) ==
  [channel_config |-> <<"{}">>, eq_settings |-> <<"{}">>,
   compression_settings |-> <<"{}">>, fx_settings |-> <<"{}">>,
   instructions |-> IF raw_response # <<>> THEN raw_response ELSE NoResponseText,
   troubleshooting_tips |-> <<"Error parsing JSON response">>]

\* lines 580-610.  path is the way the step is left: "parsed" (return at
\* line 597), "fallback" (return at line 603) or "raise": the f-string of
\* line 596 calls setup_data.keys(), an AttributeError on a value that is
\* not a dict, which the except clause of line 598 does not catch.
ParseResponse(resp) ==
  LET loaded == JsonLoads(ExtractJsonText(resp))
  IN  IF loaded.kind = "dict" THEN [path |-> "parsed", data |-> loaded.value]
      ELSE IF loaded.kind = "other" THEN [path |-> "raise", data |-> EmptyPayload]
      ELSE [path |-> "fallback", data |-> FallbackData(resp)]

NormNotRun == [path |-> NotRun, data |-> EmptyPayload]

NormIdle == response = <<>> /\ norm_out = NormNotRun
MatchIdle == request_performers = <<>> /\ past_performers = <<>> /\ match_out = MatchNotRun

(***************************************************************************)
(* models/subscription.py: the subscription row and its plan limits        *)
(***************************************************************************)
Plans == {"free", "basic", "pro", "admin"}
Statuses == {"active", "trialing", "past_due", "canceled"}

\* PLAN_LIMITS, lines 41-46; -1 = unlimited
PLAN_LIMITS ==
  [free  |-> [generations |-> 2,  learning |-> 3],
   basic |-> [generations |-> 15, learning |-> 20],
   pro   |-> [generations |-> -1, learning |-> -1],
   admin |-> [generations |-> -1, learning |-> -1]]

\* PLAN_LIMITS.get(self.plan, PLAN_LIMITS["free"])
LimitsOf(row) ==
  IF row.plan \in DOMAIN PLAN_LIMITS THEN PLAN_LIMITS[row.plan] ELSE PLAN_LIMITS["free"]

generation_limit(row) == LimitsOf(row).generations
learning_limit(row) == LimitsOf(row).learning

is_active(row) == row.status \in {"active", "trialing"}

can_generate(row) ==
  IF row.plan \in {"pro", "admin"} THEN TRUE
  ELSE IF ~is_active(row) THEN FALSE
  ELSE IF generation_limit(row) = -1 THEN TRUE
  ELSE row.generations_used < generation_limit(row)

\* line 80 with <= for <
can_learn_inclusive(row) ==
  IF row.plan \in {"pro", "admin"} THEN TRUE
  ELSE IF ~is_active(row) THEN FALSE
  ELSE IF learning_limit(row) = -1 THEN TRUE
  ELSE row.learning_used <= learning_limit(row)

can_learn(row) ==
  IF row.plan \in {"pro", "admin"} THEN TRUE
  ELSE IF ~is_active(row) THEN FALSE
  ELSE IF learning_limit(row) = -1 THEN TRUE
  ELSE row.learning_used < learning_limit(row)

\* no row yet for the requester; the column defaults of lines 23-30
NoSubscription ==
  [exists |-> FALSE, plan |-> "free", status |-> "active",
   generations_used |-> 0, learning_used |-> 0,
   stripe_customer_id |-> FALSE, stripe_subscription_id |-> FALSE,
   period_start |-> 0, period_end |-> 0, canceled_at |-> FALSE]

\* services/usage_tracker.py, get_or_create_subscription (the requester is
\* not an admin): the row, created with plan free when there is none
GetOrCreateSubscription(row) ==
  IF row.exists THEN row ELSE [NoSubscription EXCEPT !.exists = TRUE]

(***************************************************************************)
(* The requester, the venues and the tables.                               *)
(***************************************************************************)
CurrentUser == "u1"
Locations == {"L1", "L2"}
LocationOwner == [L1 |-> "u1", L2 |-> "u2"]

\* ids a request may carry: the stored venues and one that is not stored
RequestedLocations == Locations \cup {"L3"}

\* lines 236-242: a row with this id and the requester as owner
OwnsLocation(loc) == loc \in DOMAIN LocationOwner /\ LocationOwner[loc] = CurrentUser

Instruments == {"tabla"}

\* lineups sent with generation requests
LineupChoices ==
  { <<[type |-> "vocal", count |-> 1]>>,
    <<[type |-> "vocal", count |-> 1], [type |-> "tabla", count |-> 1]>> }

\* texts the generator answers with: empty, prose, a labelled block with an
\* object, a bare array, a bare object without the expected keys
ResponseChoices ==
  { <<>>, <<"P">>, <<"F", "J", "O", "F">>, <<"A">>, <<"E">>, <<"B", "P", "C">> }

\* event_name and event_date of a request; both are optional
NoEvent == [event_name |-> "None", event_date |-> "None"]

EventChoices == {NoEvent, [event_name |-> "gala", event_date |-> "d1"]}

Reqs == 1..NumReqs

NoRow == [held |-> FALSE, learning_used |-> 0]

NoRequest == [kind |-> "none", location_id |-> "L1", performers |-> <<>>,
              setup_id |-> 0, name |-> "none", event |-> NoEvent]

DbEmpty ==
  /\ setups = <<>>
  /\ profiles = {}
  /\ sub = NoSubscription

NoRequests ==
  /\ pc = [r \in Reqs |-> "idle"]
  /\ rq = [r \in Reqs |-> NoRequest]
  /\ sess = [r \in Reqs |-> NoRow]
  /\ setup_data = [r \in Reqs |-> EmptyPayload]

\* dict.get(key): None when the key is missing
Get(d, k) == IF k \in DOMAIN d THEN d[k] ELSE NoneText

\* routers/setups.py lines 296-307
NewSetup(request, data) ==
  [location_id |-> request.location_id, user_id |-> CurrentUser,
   event_name |-> request.event.event_name,
   event_date |-> request.event.event_date,
   performers |-> request.performers,
   channel_config |-> Get(data, "channel_config"),
   eq_settings |-> Get(data, "eq_settings"),
   compression_settings |-> Get(data, "compression_settings"),
   fx_settings |-> Get(data, "fx_settings"),
   instructions |-> Get(data, "instructions"),
   notes |-> "None", rating |-> 0,
   is_shared |-> FALSE, shared_full_access |-> FALSE]

\* routers/setups.py line 528: the marker; setup_data.get('instructions', '')
RefreshedInstructions(data) ==
  <<"Refreshed on">> \o (IF "instructions" \in DOMAIN data THEN data["instructions"] ELSE <<>>)

\* the update with the event name cleared as well
RefreshedSetupEventCleared(old, data) ==
  [old EXCEPT !.event_name = "None",
              !.channel_config = Get(data, "channel_config"),
              !.eq_settings = Get(data, "eq_settings"),
              !.compression_settings = Get(data, "compression_settings"),
              !.fx_settings = Get(data, "fx_settings"),
              !.instructions = RefreshedInstructions(data)]

\* routers/setups.py lines 524-528
RefreshedSetup(old, data) ==
  [old EXCEPT !.channel_config = Get(data, "channel_config"),
              !.eq_settings = Get(data, "eq_settings"),
              !.compression_settings = Get(data, "compression_settings"),
              !.fx_settings = Get(data, "fx_settings"),
              !.instructions = RefreshedInstructions(data)]

\* routers/setups.py line 215: the tag, then `past_setup.instructions or ''`
ReusedInstructions(past_setup) ==
  <<"Reused from",
    IF past_setup.event_name = "None" THEN "previous setup" ELSE past_setup.event_name>>
  \o (IF past_setup.instructions = NoneText THEN <<>> ELSE past_setup.instructions)

\* the new row built from the request alone
ReusedSetupWithoutSettings(past_setup, request) ==
  [NewSetup(request, EmptyPayload) EXCEPT !.instructions = ReusedInstructions(past_setup)]

\* routers/setups.py lines 205-216
ReusedSetup(past_setup, request) ==
  [location_id |-> request.location_id, user_id |-> CurrentUser,
   event_name |-> request.event.event_name,
   event_date |-> request.event.event_date,
   performers |-> request.performers,
   channel_config |-> past_setup.channel_config,
   eq_settings |-> past_setup.eq_settings,
   compression_settings |-> past_setup.compression_settings,
   fx_settings |-> past_setup.fx_settings,
   instructions |-> ReusedInstructions(past_setup),
   notes |-> "None", rating |-> 0,
   is_shared |-> FALSE, shared_full_access |-> FALSE]

(***************************************************************************)
(* routers/setups.py: generate_setup and refresh_setup                     *)
(***************************************************************************)
\* the venue lookup with the ownership condition of line 240 left out
StartGenerateAnyVenue(r) ==
  /\ pc[r] = "idle"
  /\ Len(setups) < MaxSetups
  /\ \E loc \in RequestedLocations, perf \in LineupChoices, ev \in EventChoices :
       /\ rq' = [rq EXCEPT ![r] = [kind |-> "generate", location_id |-> loc,
                                   performers |-> perf, setup_id |-> 0, name |-> "none",
                                   event |-> ev]]
       /\ pc' = [pc EXCEPT ![r] = "generating"]
  /\ UNCHANGED <<matchVars, normVars, gateVars, billVars, gearVars, updVars, checkVars, histVars, dbVars, sess, setup_data>>

\* generate_setup lines 234-292: the venue lookup, then the call of
\* generator.generate is under way
StartGenerate(r) ==
  /\ pc[r] = "idle"
  /\ Len(setups) < MaxSetups
  /\ \E loc \in RequestedLocations, perf \in LineupChoices, ev \in EventChoices :
       /\ rq' = [rq EXCEPT ![r] = [kind |-> "generate", location_id |-> loc,
                                   performers |-> perf, setup_id |-> 0, name |-> "none",
                                   event |-> ev]]
       /\ pc' = [pc EXCEPT ![r] =
                   IF OwnsLocation(loc) THEN "generating" ELSE "not_found"]
  /\ UNCHANGED <<matchVars, normVars, gateVars, billVars, gearVars, updVars, checkVars, histVars, dbVars, sess, setup_data>>

\* refresh_setup lines 448-520: the setup and venue lookups, then the call
StartRefresh(r) ==
  /\ pc[r] = "idle"
  /\ \E id \in 1..MaxSetups :
       /\ rq' = [rq EXCEPT ![r] = [kind |-> "refresh", location_id |-> "L1",
                                   performers |-> <<>>, setup_id |-> id, name |-> "none", event |-> NoEvent]]
       /\ pc' = [pc EXCEPT ![r] =
                   IF /\ id \in DOMAIN setups
                      /\ setups[id].user_id = CurrentUser
                      /\ LocationOwner[setups[id].location_id] = CurrentUser
                   THEN "generating" ELSE "not_found"]
  /\ UNCHANGED <<matchVars, normVars, gateVars, billVars, gearVars, updVars, checkVars, histVars, dbVars, sess, setup_data>>

\* the Claude call returns a text and generate() parses it (setup_generator.py
\* lines 561-610); an exception of the parsing step reaches the handler's
\* `except Exception` (setups.py lines 315-320, 536-541): HTTP 500
GeneratorReturns(r) ==
  /\ pc[r] = "generating"
  /\ \E text \in ResponseChoices :
       LET out == ParseResponse(text)
       IN  IF out.path = "raise"
           THEN /\ pc' = [pc EXCEPT ![r] = "error"]
                /\ UNCHANGED setup_data
           ELSE /\ pc' = [pc EXCEPT ![r] = "parsed"]
                /\ setup_data' = [setup_data EXCEPT ![r] = out.data]
  /\ UNCHANGED <<matchVars, normVars, gateVars, billVars, gearVars, updVars, checkVars, histVars, dbVars, rq, sess>>

\* the handler adds the row before the generator has answered
GeneratorFailsRowAdded(r) ==
  /\ pc[r] = "generating"
  /\ pc' = [pc EXCEPT ![r] = "error"]
  /\ setups' = Append(setups, NewSetup(rq[r], EmptyPayload))
  /\ UNCHANGED <<matchVars, normVars, gateVars, billVars, gearVars, updVars, checkVars, histVars, profiles, sub, rq, sess, setup_data>>

\* the Claude call times out or fails (claude_service.py lines 62-69); the
\* exception reaches the handler's `except Exception`: HTTP 500
GeneratorFails(r) ==
  /\ pc[r] = "generating"
  /\ pc' = [pc EXCEPT ![r] = "error"]
  /\ UNCHANGED <<matchVars, normVars, gateVars, billVars, gearVars, updVars, checkVars, histVars, dbVars, rq, sess, setup_data>>

\* the five persisted keys of the generator's dictionary
PersistedKeys ==
  {"channel_config", "eq_settings", "compression_settings", "fx_settings", "instructions"}

\* the row is built with setup_data[key]: a missing key is a KeyError,
\* which the handler turns into HTTP 500
PersistSetupKeysRequired(r) ==
  /\ pc[r] = "parsed"
  /\ rq[r].kind = "generate"
  /\ IF PersistedKeys \subseteq DOMAIN setup_data[r]
     THEN /\ setups' = Append(setups, NewSetup(rq[r], setup_data[r]))
          /\ pc' = [pc EXCEPT ![r] = "done"]
     ELSE /\ setups' = setups
          /\ pc' = [pc EXCEPT ![r] = "error"]
  /\ UNCHANGED <<matchVars, normVars, gateVars, billVars, gearVars, updVars, checkVars, histVars, profiles, sub, rq, sess, setup_data>>

\* generate_setup lines 295-312: the new row is committed
PersistSetup(r) ==
  /\ pc[r] = "parsed"
  /\ rq[r].kind = "generate"
  /\ setups' = Append(setups, NewSetup(rq[r], setup_data[r]))
  /\ pc' = [pc EXCEPT ![r] = "done"]
  /\ UNCHANGED <<matchVars, normVars, gateVars, billVars, gearVars, updVars, checkVars, histVars, profiles, sub, rq, sess, setup_data>>

\* refresh_setup lines 523-533: the technical fields are replaced and committed
PersistRefresh(r) ==
  /\ pc[r] = "parsed"
  /\ rq[r].kind = "refresh"
  /\ setups' = [setups EXCEPT ![rq[r].setup_id] = RefreshedSetup(@, setup_data[r])]
  /\ pc' = [pc EXCEPT ![r] = "done"]
  /\ UNCHANGED <<matchVars, normVars, gateVars, billVars, gearVars, updVars, checkVars, histVars, profiles, sub, rq, sess, setup_data>>

(***************************************************************************)
(* routers/setups.py: reuse_setup                                          *)
(***************************************************************************)
\* lines 189-221: the past setup is looked up by id and owner; the copy is
\* added and committed. The venue named by the request is not looked up.
ReuseSetup(r) ==
  /\ pc[r] = "idle"
  /\ Len(setups) < MaxSetups
  /\ \E id \in 1..MaxSetups, loc \in Locations, perf \in LineupChoices, ev \in EventChoices :
       LET request == [kind |-> "reuse", location_id |-> loc, performers |-> perf,
                       setup_id |-> id, name |-> "none", event |-> ev]
       IN  /\ rq' = [rq EXCEPT ![r] = request]
           /\ IF id \in DOMAIN setups /\ setups[id].user_id = CurrentUser
              THEN /\ setups' = Append(setups, ReusedSetup(setups[id], request))
                   /\ pc' = [pc EXCEPT ![r] = "done"]
              ELSE /\ pc' = [pc EXCEPT ![r] = "not_found"]
                   /\ UNCHANGED setups
  /\ UNCHANGED <<matchVars, normVars, gateVars, billVars, gearVars, updVars, checkVars, histVars, profiles, sub, sess, setup_data>>

(***************************************************************************)
(* routers/instruments.py: learn_instrument, with the quota calls of       *)
(* services/usage_tracker.py                                               *)
(***************************************************************************)
\* lines 87-107: check_learning_allowed (usage_tracker.py lines 57-74), which
\* creates the row when missing and answers 402 when can_learn() is false
StartLearn(r) ==
  /\ pc[r] = "idle"
  /\ sub.learning_used < MaxUsed
  /\ \E name \in Instruments :
       rq' = [rq EXCEPT ![r] = [kind |-> "learn", location_id |-> "L1",
                               performers |-> <<>>, setup_id |-> 0, name |-> name,
                               event |-> NoEvent]]
  /\ sub' = GetOrCreateSubscription(sub)
  /\ IF can_learn(sub')
     THEN /\ pc' = [pc EXCEPT ![r] = "learning"]
          /\ sess' = [sess EXCEPT ![r] = [held |-> TRUE, learning_used |-> sub'.learning_used]]
     ELSE /\ pc' = [pc EXCEPT ![r] = "quota_exceeded"]
          /\ UNCHANGED sess
  /\ UNCHANGED <<matchVars, normVars, gateVars, billVars, gearVars, updVars, checkVars, histVars, setups, profiles, setup_data>>

\* lines 103-153: the learner answers; an answer with "error" gives HTTP 500,
\* otherwise the profile is committed
LearnerReturns(r) ==
  /\ pc[r] = "learning"
  /\ \/ /\ pc' = [pc EXCEPT ![r] = "error"]
        /\ UNCHANGED profiles
     \/ /\ pc' = [pc EXCEPT ![r] = "learned"]
        /\ profiles' = profiles \cup {rq[r].name}
  /\ UNCHANGED <<matchVars, normVars, gateVars, billVars, gearVars, updVars, checkVars, histVars, setups, sub, rq, sess, setup_data>>

\* usage_tracker.py lines 84-88, called at instruments.py lines 130 / 154:
\* learning_used of the handler's `subscription` object plus one is written.
\* The object is the one check_learning_allowed loaded; under asyncio it is
\* never reloaded implicitly, so it carries the value read by the check.
RecordLearning(r) ==
  /\ pc[r] = "learned"
  /\ sub' = [sub EXCEPT !.learning_used = sess[r].learning_used + 1]
  /\ pc' = [pc EXCEPT ![r] = "done"]
  /\ UNCHANGED <<matchVars, normVars, gateVars, billVars, gearVars, updVars, checkVars, histVars, setups, profiles, rq, sess, setup_data>>

(***************************************************************************)
(* The caller goes away while the handler waits (asyncio.CancelledError is *)
(* not an Exception, so no handler catches it), and the end of a request.  *)
(***************************************************************************)
Cancel(r) ==
  /\ pc[r] \in {"generating", "parsed", "learning", "learned"}
  /\ pc' = [pc EXCEPT ![r] = "cancelled"]
  /\ UNCHANGED <<matchVars, normVars, gateVars, billVars, gearVars, updVars, checkVars, histVars, dbVars, rq, sess, setup_data>>

Terminal == {"done", "error", "cancelled", "not_found", "quota_exceeded"}

Finish(r) ==
  /\ pc[r] \in Terminal
  /\ pc' = [pc EXCEPT ![r] = "idle"]
  /\ rq' = [rq EXCEPT ![r] = NoRequest]
  /\ sess' = [sess EXCEPT ![r] = NoRow]
  /\ setup_data' = [setup_data EXCEPT ![r] = EmptyPayload]
  /\ UNCHANGED <<matchVars, normVars, gateVars, billVars, gearVars, updVars, checkVars, histVars, dbVars>>

(***************************************************************************)
(* routers/setups.py: check_matching_setup                                 *)
(***************************************************************************)
\* line 134: .limit(10)
MatchQueryLimit == 10

Min(a, b) == IF a <= b THEN a ELSE b

\* ORDER BY rating DESC, created_at ASC
OrderedBeforeOldestFirst(store, i, j) ==
  \/ store[i].rating > store[j].rating
  \/ store[i].rating = store[j].rating /\ i < j

\* ORDER BY rating DESC, created_at DESC; rows are stored in order of creation
OrderedBefore(store, i, j) ==
  \/ store[i].rating > store[j].rating
  \/ store[i].rating = store[j].rating /\ i > j

RECURSIVE SortedIds(_, _)
SortedIds(store, ids) ==
  IF ids = {} THEN <<>>
  ELSE LET first == CHOOSE i \in ids : \A j \in ids \ {i} : OrderedBefore(store, i, j)
       IN  <<first>> \o SortedIds(store, ids \ {first})

\* lines 129-136: the requester's setups at the venue rated 4 or more (a
\* rating of 0 stands for NULL, which no comparison selects)
MatchCandidates(store, request) ==
  LET ids == {i \in DOMAIN store :
                /\ store[i].location_id = request.location_id
                /\ store[i].user_id = CurrentUser
                /\ store[i].rating >= 4}
      sorted == SortedIds(store, ids)
  IN  SubSeq(sorted, 1, Min(MatchQueryLimit, Len(sorted)))

\* line 151 with the rating left out of the factor
AdjustedScoreRatingIgnored(score, rating) == Frac(score.num * 92, score.den * 100)

\* line 151 with a factor that grows five times as fast: rating * 0.2
AdjustedScoreWideFactor(score, rating) ==
  Frac(score.num * ((IF rating = 0 THEN 3 ELSE rating) * 20), score.den * 100)

\* line 151: score * (0.8 + (setup.rating or 3) * 0.04)
AdjustedScore(score, rating) ==
  Frac(score.num * (80 + (IF rating = 0 THEN 3 ELSE rating) * 4), score.den * 100)

NoBest == [match |-> 0, quality |-> "none", score |-> Frac(0, 1)]

\* lines 148-156: the loop over past_setups
RECURSIVE BestMatch(_, _, _, _)
BestMatch(store, request, ids, best) ==
  IF ids = <<>> THEN best
  ELSE LET setup    == store[Head(ids)]
           result   == CalculatePerformerMatch(request.performers, setup.performers)
           adjusted == AdjustedScore(result[2], setup.rating)
       IN  BestMatch(store, request, Tail(ids),
                     IF FracLt(best.score, adjusted)
                     THEN [match |-> Head(ids), quality |-> result[1], score |-> adjusted]
                     ELSE best)

\* line 158 with partial matches let through
ReusableOrPartial(quality) == quality \in {"exact", "similar", "partial"}

\* line 158: best_quality in ("exact", "similar")
Reusable(quality) == quality \in {"exact", "similar"}

NoMatchResponse == [has_match |-> FALSE, match_quality |-> "None", matching_setup |-> 0]

\* lines 138-178
CheckMatchingSetup(store, request) ==
  LET past_setups == MatchCandidates(store, request)
      best        == BestMatch(store, request, past_setups, NoBest)
  IN  IF past_setups = <<>> THEN NoMatchResponse
      ELSE IF best.match # 0 /\ Reusable(best.quality)
           THEN [has_match |-> TRUE, match_quality |-> best.quality,
                 matching_setup |-> best.match]
      ELSE NoMatchResponse

CheckNotRun == [has_match |-> FALSE, match_quality |-> NotRun, matching_setup |-> 0]

NoCheckRequest == [location_id |-> "L1", performers |-> <<>>]

CheckIdle == check_request = NoCheckRequest /\ check_out = CheckNotRun

GateNotRun == [kind |-> NotRun, allowed |-> FALSE, plan |-> "free", used |-> 0, limit |-> 0]

GateIdle == gate_out = GateNotRun

Init ==
  /\ MatchIdle
  /\ NormIdle
  /\ GateIdle
  /\ BillIdle
  /\ GearIdle
  /\ UpdateIdle
  /\ CheckIdle
  /\ HistIdle
  /\ DbEmpty
  /\ NoRequests

Next ==
  \E r \in Reqs :
    \/ StartGenerate(r)
    \/ StartRefresh(r)
    \/ GeneratorReturns(r)
    \/ GeneratorFails(r)
    \/ PersistSetup(r)
    \/ PersistRefresh(r)
    \/ ReuseSetup(r)
    \/ StartLearn(r)
    \/ LearnerReturns(r)
    \/ RecordLearning(r)
    \/ Cancel(r)

Spec == Init /\ [][Next]_vars

(***************************************************************************)
(* routers/billing.py: checkout and the Stripe webhook handlers.  The row  *)
(* holds whether its Stripe ids are set; an event names this account's     *)
(* customer or subscription, so a handler finds the row exactly when the   *)
(* id is set.  A period is a number, 0 for a date that is absent.          *)
(***************************************************************************)
CheckoutPlans == {"basic", "pro"}

EventPeriods ==
  {[start |-> 0, end |-> 0]} \cup {[start |-> p, end |-> p + 1] : p \in 1..MaxPeriod}

\* create_checkout_session lines 146-159
CreateCheckout ==
  /\ sub' = [GetOrCreateSubscription(sub) EXCEPT !.stripe_customer_id = TRUE]
  /\ sub' # sub
  /\ UNCHANGED <<matchVars, normVars, gateVars, billVars, gearVars, updVars, checkVars, histVars, setups, profiles, reqVars>>

\* handle_checkout_completed lines 269-291
HandleCheckoutCompleted ==
  /\ sub.exists /\ sub.stripe_customer_id
  /\ \E plan \in CheckoutPlans :
       sub' = [sub EXCEPT !.stripe_subscription_id = TRUE,
                          !.plan = plan,
                          !.status = "active",
                          !.generations_used = 0,
                          !.learning_used = 0]
  /\ UNCHANGED <<matchVars, normVars, gateVars, gearVars, updVars, checkVars, histVars, setups, profiles, reqVars>>
  /\ billing_event' = [NoBillingEvent EXCEPT !.kind = "checkout.session.completed"]

\* handle_subscription_updated lines 294-324; "" stands for a missing field
HandleSubscriptionUpdated ==
  /\ sub.exists /\ sub.stripe_subscription_id
  /\ \E status_val \in Statuses \cup {""}, plan \in CheckoutPlans \cup {""},
        period \in EventPeriods, cancel_at \in BOOLEAN :
       /\ billing_event' = [kind |-> "customer.subscription.updated",
                            period_start |-> period.start, period_end |-> period.end]
       /\ sub' = [sub EXCEPT
                   !.status = IF status_val # "" THEN status_val ELSE @,
                   !.plan = IF plan # "" THEN plan ELSE @,
                   !.period_start = IF period.start # 0 THEN period.start ELSE @,
                   !.period_end = IF period.end # 0 THEN period.end ELSE @,
                   !.canceled_at = IF cancel_at THEN TRUE ELSE @]
  /\ UNCHANGED <<matchVars, normVars, gateVars, gearVars, updVars, checkVars, histVars, setups, profiles, reqVars>>

\* handle_subscription_deleted lines 337-340: the fields assigned
SubscriptionDeleted(row) ==
  [row EXCEPT !.plan = "free",
              !.status = "canceled",
              !.canceled_at = TRUE,
              !.stripe_subscription_id = FALSE]

\* handle_subscription_deleted lines 327-342
HandleSubscriptionDeleted ==
  /\ sub.exists /\ sub.stripe_subscription_id
  /\ sub' = SubscriptionDeleted(sub)
  /\ billing_event' = [NoBillingEvent EXCEPT !.kind = "customer.subscription.deleted"]
  /\ UNCHANGED <<matchVars, normVars, gateVars, gearVars, updVars, checkVars, histVars, setups, profiles, reqVars>>

\* the renewal with the learning counter left alone
InvoicePaidLearningKept(row, period) ==
  [row EXCEPT !.generations_used = 0,
              !.status = "active",
              !.period_start = IF period.start # 0 THEN period.start ELSE @,
              !.period_end = IF period.end # 0 THEN period.end ELSE @]

\* handle_invoice_paid lines 356-368: the fields assigned; a period field
\* the event does not carry (0) leaves the stored one
InvoicePaid(row, period) ==
  [row EXCEPT !.generations_used = 0,
              !.learning_used = 0,
              !.status = "active",
              !.period_start = IF period.start # 0 THEN period.start ELSE @,
              !.period_end = IF period.end # 0 THEN period.end ELSE @]

\* handle_invoice_paid lines 345-371
HandleInvoicePaid ==
  /\ sub.exists /\ sub.stripe_subscription_id
  /\ \E period \in EventPeriods :
       /\ sub' = InvoicePaid(sub, period)
       /\ billing_event' = [kind |-> "invoice.paid",
                            period_start |-> period.start, period_end |-> period.end]
  /\ UNCHANGED <<matchVars, normVars, gateVars, gearVars, updVars, checkVars, histVars, setups, profiles, reqVars>>

\* handle_payment_failed lines 374-388
HandlePaymentFailed ==
  /\ sub.exists /\ sub.stripe_subscription_id
  /\ sub' = [sub EXCEPT !.status = "past_due"]
  /\ UNCHANGED <<matchVars, normVars, gateVars, gearVars, updVars, checkVars, histVars, setups, profiles, reqVars>>
  /\ billing_event' = [NoBillingEvent EXCEPT !.kind = "invoice.payment_failed"]

(***************************************************************************)
(* Specification of the quota: learning requests, which may follow one     *)
(* another in a handler slot, interleaved with the billing events.         *)
(***************************************************************************)
NextQuota ==
  \/ \E r \in Reqs :
       \/ StartLearn(r)
       \/ LearnerReturns(r)
       \/ RecordLearning(r)
       \/ Cancel(r)
       \/ Finish(r)
  \/ CreateCheckout
  \/ HandleCheckoutCompleted
  \/ HandleSubscriptionUpdated
  \/ HandleSubscriptionDeleted
  \/ HandleInvoicePaid
  \/ HandlePaymentFailed

SpecQuota == Init /\ [][NextQuota]_vars

(***************************************************************************)
(* services/usage_tracker.py: check_generation_allowed and                 *)
(* check_learning_allowed as functions of the subscription row.            *)
(***************************************************************************)
\* a plan name that PLAN_LIMITS does not list falls back to the free limits
StoredPlans == Plans \cup {"legacy"}

SubscriptionRows ==
  {NoSubscription} \cup
  { [NoSubscription EXCEPT !.exists = TRUE, !.plan = p, !.status = st,
                           !.generations_used = g, !.learning_used = l] :
      p \in StoredPlans, st \in Statuses, g \in 0..MaxCounter, l \in 0..MaxCounter }

InitGate ==
  /\ MatchIdle
  /\ NormIdle
  /\ GateIdle
  /\ BillIdle
  /\ GearIdle
  /\ UpdateIdle
  /\ CheckIdle
  /\ HistIdle
  /\ setups = <<>>
  /\ profiles = {}
  /\ sub \in SubscriptionRows
  /\ NoRequests

\* lines 37-54: HTTP 402 with plan, used and limit, or the row
CheckGenerationAllowed ==
  /\ gate_out.kind = NotRun
  /\ sub' = GetOrCreateSubscription(sub)
  /\ gate_out' = [kind |-> "generation", allowed |-> can_generate(sub'),
                  plan |-> sub'.plan, used |-> sub'.generations_used,
                  limit |-> generation_limit(sub')]
  /\ UNCHANGED <<matchVars, normVars, billVars, gearVars, updVars, checkVars, histVars, setups, profiles, reqVars>>

\* lines 57-74
CheckLearningAllowed ==
  /\ gate_out.kind = NotRun
  /\ sub' = GetOrCreateSubscription(sub)
  /\ gate_out' = [kind |-> "learning", allowed |-> can_learn(sub'),
                  plan |-> sub'.plan, used |-> sub'.learning_used,
                  limit |-> learning_limit(sub')]
  /\ UNCHANGED <<matchVars, normVars, billVars, gearVars, updVars, checkVars, histVars, setups, profiles, reqVars>>

NextGate == CheckGenerationAllowed \/ CheckLearningAllowed

SpecGate == InitGate /\ [][NextGate]_vars

(***************************************************************************)
(* Specification of the webhook handlers over the rows of paying accounts. *)
(***************************************************************************)
\* rows of accounts that went through checkout: a customer and a Stripe
\* subscription are attached; learning_used as learn requests left it
\* (no handler writes generations_used)
BillingRows ==
  { [NoSubscription EXCEPT !.exists = TRUE, !.plan = p, !.status = st,
                           !.learning_used = l,
                           !.stripe_customer_id = TRUE,
                           !.stripe_subscription_id = TRUE] :
      p \in CheckoutPlans, st \in Statuses, l \in 0..MaxUsed }

InitBilling ==
  /\ MatchIdle
  /\ NormIdle
  /\ GateIdle
  /\ BillIdle
  /\ GearIdle
  /\ UpdateIdle
  /\ CheckIdle
  /\ HistIdle
  /\ setups = <<>>
  /\ profiles = {}
  /\ sub \in BillingRows
  /\ NoRequests

NextBilling ==
  \/ HandleCheckoutCompleted
  \/ HandleSubscriptionUpdated
  \/ HandleSubscriptionDeleted
  \/ HandleInvoicePaid
  \/ HandlePaymentFailed

SpecBilling == InitBilling /\ [][NextBilling]_vars

(***************************************************************************)
(* routers/gear.py: the inventory and its loans                            *)
(***************************************************************************)
\* lines 129-130: the sum of quantity_loaned over the item's loans that are
\* not returned
RECURSIVE LoanedQty(_, _)
LoanedQty(all_loans, g) ==
  IF all_loans = <<>> THEN 0
  ELSE LET loan == Head(all_loans)
       IN  (IF loan.gear_id = g /\ ~loan.is_returned THEN loan.quantity_loaned ELSE 0)
           + LoanedQty(Tail(all_loans), g)

\* line 143: "quantity_available": gear.quantity - loaned_qty
QuantityAvailable(g) == gear[g] - LoanedQty(loans, g)

\* create_gear lines 151-170
CreateGear ==
  /\ Len(gear) < MaxGear
  /\ \E quantity \in 1..MaxQuantity : gear' = Append(gear, quantity)
  /\ UNCHANGED <<matchVars, normVars, gateVars, billVars, updVars, checkVars, histVars, dbVars, reqVars,
                 loans, gear_out>>

\* update_gear lines 206-244 with a quantity in the request
UpdateGear ==
  /\ \E g \in DOMAIN gear, quantity \in 1..MaxQuantity :
       gear' = [gear EXCEPT ![g] = quantity]
  /\ UNCHANGED <<matchVars, normVars, gateVars, billVars, updVars, checkVars, histVars, dbVars, reqVars,
                 loans, gear_out>>

\* create_loan lines 393-438: HTTP 400 when more is asked than is available
CreateLoan ==
  /\ Len(loans) < MaxLoans
  /\ \E g \in DOMAIN gear, quantity_loaned \in 1..MaxQuantity :
       /\ ~(quantity_loaned > QuantityAvailable(g))
       /\ loans' = Append(loans, [gear_id |-> g, quantity_loaned |-> quantity_loaned,
                                  is_returned |-> FALSE])
  /\ UNCHANGED <<matchVars, normVars, gateVars, billVars, updVars, checkVars, histVars, dbVars, reqVars,
                 gear, gear_out>>

\* return_loan lines 476-513: HTTP 400 when already returned
ReturnLoan ==
  /\ \E l \in DOMAIN loans :
       /\ ~loans[l].is_returned
       /\ loans' = [loans EXCEPT ![l].is_returned = TRUE]
  /\ UNCHANGED <<matchVars, normVars, gateVars, billVars, updVars, checkVars, histVars, dbVars, reqVars,
                 gear, gear_out>>

\* get_gear lines 112-148: the list with quantity_available per item
GetGear ==
  /\ gear_out' = [run |-> TRUE,
                  quantity_available |-> [g \in DOMAIN gear |-> QuantityAvailable(g)]]
  /\ UNCHANGED <<matchVars, normVars, gateVars, billVars, updVars, checkVars, histVars, dbVars, reqVars,
                 gear, loans>>

NextGear == CreateGear \/ UpdateGear \/ CreateLoan \/ ReturnLoan \/ GetGear

\* the inventory starts empty
SpecGear == Init /\ [][NextGear]_vars

(***************************************************************************)
(* routers/setups.py: update_setup                                         *)
(***************************************************************************)
\* the rating of a SetupUpdate body: left out, null, or an integer
RatingInputs ==
  {[given |-> "unset", value |-> 0], [given |-> "null", value |-> 0]}
    \cup {[given |-> "value", value |-> v] : v \in {0, 1, 5, 6}}

UpdateInputs(ids) ==
  [setup_id : ids, rating : RatingInputs, notes : {"unset", "n1"},
   is_shared : {"unset", "true"}]

\* line 584 without the upper limit
RatingInRangeNoUpperLimit(rating) == ~(rating < 1)

\* line 584: not (rating < 1 or rating > 5)
RatingInRange(rating) == ~(rating < 1 \/ rating > 5)

\* lines 590-591: setattr for every field the body carries
UpdatedSetup(setup, body) ==
  [setup EXCEPT
     !.rating = IF body.rating.given = "unset" THEN @
                ELSE IF body.rating.given = "null" THEN 0
                ELSE body.rating.value,
     !.notes = IF body.notes = "unset" THEN @ ELSE body.notes,
     !.is_shared = IF body.is_shared = "unset" THEN @ ELSE TRUE]

\* lines 553-593: the HTTP status and the row as it is left (the requester
\* is not an admin)
UpdateOutcome(store, body) ==
  IF body.setup_id \notin DOMAIN store THEN [status |-> "404", store |-> store]
  ELSE LET setup           == store[body.setup_id]
           is_owner        == setup.user_id = CurrentUser
           has_full_access == setup.is_shared /\ setup.shared_full_access
       IN  IF ~is_owner /\ ~has_full_access THEN [status |-> "403", store |-> store]
           ELSE IF ~is_owner /\ body.is_shared # "unset"
             THEN [status |-> "403", store |-> store]
           ELSE IF body.rating.given = "value" /\ ~RatingInRange(body.rating.value)
             THEN [status |-> "400", store |-> store]
           ELSE [status |-> "200",
                 store |-> [store EXCEPT ![body.setup_id] = UpdatedSetup(@, body)]]

UpdateSetup ==
  /\ \E body \in UpdateInputs(1..(Len(setups) + 1)) :
       LET outcome == UpdateOutcome(setups, body)
       IN  /\ update_request' = body
           /\ update_out' = outcome.status
           /\ setups' = outcome.store
  /\ UNCHANGED <<matchVars, normVars, gateVars, billVars, gearVars, checkVars, histVars, profiles, sub, reqVars>>

\* stored setups of the requester and of another user, private or shared
\* with full access, none rated yet
UpdatableSetups ==
  { [NewSetup([location_id |-> "L1", performers |-> <<[type |-> "vocal", count |-> 1]>>,
               event |-> NoEvent], FullPayload)
       EXCEPT !.user_id = owner, !.is_shared = shared, !.shared_full_access = shared] :
      owner \in {"u1", "u2"}, shared \in BOOLEAN }

InitUpdate ==
  /\ MatchIdle
  /\ NormIdle
  /\ GateIdle
  /\ BillIdle
  /\ GearIdle
  /\ UpdateIdle
  /\ CheckIdle
  /\ HistIdle
  /\ setups \in SeqsUpTo(UpdatableSetups, MaxRated)
  /\ profiles = {}
  /\ sub = NoSubscription
  /\ NoRequests

NextUpdate == UpdateSetup

SpecUpdate == InitUpdate /\ [][NextUpdate]_vars

(***************************************************************************)
(* Specification of the match check as a function of the stored setups     *)
(* and the request.                                                        *)
(***************************************************************************)
StoredLineups ==
  { <<>>,
    <<[type |-> "vocal", count |-> 1]>>,
    <<[type |-> "vocal", count |-> 2]>>,
    <<[type |-> "vocal", count |-> 1], [type |-> "tabla", count |-> 1]>>,
    <<[type |-> "flute", count |-> 1]>> }

\* unrated, and rated below and at or above the threshold of line 133
StoredRatings == {0, 3, 4, 5}

StoredSetups ==
  { [NewSetup([location_id |-> loc, performers |-> perf, event |-> NoEvent], FullPayload)
       EXCEPT !.rating = rt] :
      loc \in Locations, perf \in StoredLineups, rt \in StoredRatings }

InitCheck ==
  /\ MatchIdle
  /\ NormIdle
  /\ GateIdle
  /\ BillIdle
  /\ GearIdle
  /\ UpdateIdle
  /\ HistIdle
  /\ setups \in SeqsUpTo(StoredSetups, MaxStored)
  /\ profiles = {}
  /\ sub = NoSubscription
  /\ NoRequests
  /\ check_request \in [location_id : Locations, performers : LineupChoices]
  /\ check_out = CheckNotRun

\* the check counted as a generation
CheckMatchCountsUsage ==
  /\ check_out.match_quality = NotRun
  /\ check_out' = CheckMatchingSetup(setups, check_request)
  /\ sub' = [GetOrCreateSubscription(sub) EXCEPT !.generations_used = @ + 1]
  /\ UNCHANGED <<matchVars, normVars, gateVars, billVars, gearVars, updVars, histVars, check_request, setups, profiles, reqVars>>

CheckMatch ==
  /\ check_out.match_quality = NotRun
  /\ check_out' = CheckMatchingSetup(setups, check_request)
  /\ UNCHANGED <<matchVars, normVars, gateVars, billVars, gearVars, updVars, histVars, check_request, dbVars, reqVars>>

NextCheck == CheckMatch

SpecCheck == InitCheck /\ [][NextCheck]_vars

(***************************************************************************)
(* Specification of the parsing step as a function of the response text.   *)
(***************************************************************************)
InitNorm ==
  /\ response \in Texts
  /\ norm_out = NormNotRun
  /\ MatchIdle
  /\ GateIdle
  /\ BillIdle
  /\ GearIdle
  /\ UpdateIdle
  /\ CheckIdle
  /\ HistIdle
  /\ DbEmpty
  /\ NoRequests

Normalize ==
  /\ norm_out.path = NotRun
  /\ norm_out' = ParseResponse(response)
  /\ UNCHANGED <<response, matchVars, gateVars, billVars, gearVars, updVars, checkVars, histVars, dbVars, reqVars>>

NextNorm == Normalize

SpecNorm == InitNorm /\ [][NextNorm]_vars

(***************************************************************************)
(* Specification of the matcher as a pure function: the lineups are the    *)
(* inputs, Classify applies calculate_performer_match to them.             *)
(***************************************************************************)
InitMatch ==
  /\ request_performers \in SeqsUpTo(Rows, MaxReqRows)
  /\ past_performers \in SeqsUpTo(Rows, MaxPastRows)
  /\ match_out = MatchNotRun
  /\ NormIdle
  /\ GateIdle
  /\ BillIdle
  /\ GearIdle
  /\ UpdateIdle
  /\ CheckIdle
  /\ HistIdle
  /\ DbEmpty
  /\ NoRequests

Classify ==
  /\ match_out = MatchNotRun
  /\ match_out' = CalculatePerformerMatch(request_performers, past_performers)
  /\ UNCHANGED <<request_performers, past_performers, normVars, gateVars, billVars, gearVars, updVars, checkVars, histVars, dbVars, reqVars>>

NextMatch == Classify

SpecMatch == InitMatch /\ [][NextMatch]_vars

(***************************************************************************)
(* Properties of the matcher.  The lineups are reduced here independently  *)
(* of the code's dictionaries: a set of types and a total per type.        *)
(***************************************************************************)
LineupTypes(lineup) == {lineup[i].type : i \in DOMAIN lineup}

RECURSIVE LineupTotal(_, _)
LineupTotal(lineup, t) ==
  IF lineup = <<>> THEN 0
  ELSE (IF Head(lineup).type = t THEN Head(lineup).count ELSE 0)
       + LineupTotal(Tail(lineup), t)

SameTypes == LineupTypes(request_performers) = LineupTypes(past_performers)

SameTotals ==
  \A t \in Types : LineupTotal(request_performers, t) = LineupTotal(past_performers, t)

CommonTypes == Cardinality(LineupTypes(request_performers) \cap LineupTypes(past_performers))

LargerTypes == Max(Cardinality(LineupTypes(request_performers)),
                   Cardinality(LineupTypes(past_performers)))

Classified == match_out[1] # NotRun

\* C7 (as stated): lineups reducing to the same type -> total map are
\* classified (exact, 1.0), for every request and every candidate lineup.
C7_ExactForEveryLineup ==
  (Classified /\ SameTypes /\ SameTotals)
    => (match_out[1] = "exact" /\ FracEq(match_out[2], Frac(1, 1)))

\* C7 (amended): lineups reducing to the same type -> total map are classified
\* (exact, 1.0) whenever the candidate lineup has at least one row; an empty
\* candidate lineup is classified (none, 0.0) even against an empty request.
C7_ExactWhenCandidateNonEmpty ==
  /\ (Classified /\ SameTypes /\ SameTotals /\ past_performers # <<>>)
       => (match_out[1] = "exact" /\ FracEq(match_out[2], Frac(1, 1)))
  /\ (Classified /\ past_performers = <<>>)
       => (match_out[1] = "none" /\ FracEq(match_out[2], Frac(0, 1)))

\* a request with two rows of one type against a candidate with one row of it
C7_Witness ==
  /\ Classified /\ SameTypes /\ SameTotals
  /\ Len(request_performers) = 2 /\ Len(past_performers) = 1
  /\ match_out[1] = "exact"

\* C8: equal sets of types with a differing total for some type are
\* classified (similar, 0.8).
C8_SimilarOnSameTypes ==
  (Classified /\ SameTypes /\ ~SameTotals)
    => (match_out[1] = "similar" /\ FracEq(match_out[2], Frac(8, 10)))

C8_Witness ==
  /\ Classified /\ SameTypes /\ ~SameTotals
  /\ Cardinality(LineupTypes(request_performers)) = 2
  /\ match_out[1] = "similar"

\* C9: with different sets of types and overlap = common / larger: overlap >= 0.5
\* gives (partial, overlap x 0.6), overlap < 0.5 gives (none, 0.0); 0.5 is partial.
C9_PartialThreshold ==
  (Classified /\ ~SameTypes)
    => IF 2 * CommonTypes >= LargerTypes
       THEN match_out[1] = "partial"
            /\ FracEq(match_out[2], Frac(6 * CommonTypes, 10 * LargerTypes))
       ELSE match_out[1] = "none" /\ FracEq(match_out[2], Frac(0, 1))

\* overlap exactly 0.5
C9_Witness ==
  /\ Classified /\ ~SameTypes
  /\ 2 * CommonTypes = LargerTypes
  /\ match_out[1] = "partial" /\ FracEq(match_out[2], Frac(3, 10))

(***************************************************************************)
(* Properties of the parsing step.                                         *)
(***************************************************************************)
Normalized == norm_out.path # NotRun

\* C2: parsing never raises: every response text leaves the parsing step
\* through one of its two return statements (structured or degraded).
C2_ParsingNeverRaises ==
  Normalized => norm_out.path \in {"parsed", "fallback"}

\* C3 (as stated): a degraded result carries the raw response text as its
\* instructions, for every response including the empty one.
C3_DegradedKeepsRawText ==
  (Normalized /\ norm_out.path = "fallback")
    => norm_out.data.instructions = response

\* C3 (amended): a degraded result carries the raw response text as its
\* instructions for every non-empty response; for the empty response the
\* instructions are the fixed text "No response from Claude API".
C3_DegradedKeepsNonEmptyRawText ==
  (Normalized /\ norm_out.path = "fallback")
    => IF response # <<>>
       THEN norm_out.data.instructions = response
       ELSE norm_out.data.instructions = NoResponseText

\* a degraded result for a text with leading whitespace and an unparsable block
C3_Witness ==
  /\ Normalized /\ norm_out.path = "fallback"
  /\ response # <<>> /\ Head(response) = "W" /\ Contains(response, <<"F">>)
  /\ norm_out.data.instructions = response

(***************************************************************************)
(* Properties of the generation and refresh handlers.                      *)
(***************************************************************************)
Generation == {"generate", "refresh"}

\* C1: the generator is called for a generation or refresh request only
\* after the quota check was made for that request and approved it, that is,
\* while the handler holds the subscription the check returned.
C1_GeneratorOnlyAfterQuotaCheck ==
  \A r \in Reqs :
    (rq[r].kind \in Generation /\ pc[r] \in {"generating", "parsed", "done"})
      => sess[r].held

\* C4: a generation or refresh request that ends in a generator failure or is
\* cancelled creates and alters no setup and leaves generations_used as it
\* was: the step that fails or cancels it changes neither, and the only steps
\* that change either are those in which a request commits its result (a
\* generation or refresh that was parsed, or an accepted reuse).
C4_NoLeakOnFailure ==
  [][ /\ \A r \in Reqs :
           (rq[r].kind \in Generation /\ pc[r] # pc'[r]
              /\ pc'[r] \in {"error", "cancelled"})
             => /\ pc[r] \in {"generating", "parsed"}
                /\ setups' = setups
                /\ sub'.generations_used = sub.generations_used
      /\ (setups' # setups \/ sub'.generations_used # sub.generations_used)
           => \E r \in Reqs :
                \/ rq[r].kind \in Generation /\ pc[r] = "parsed" /\ pc'[r] = "done"
                \/ rq'[r].kind = "reuse" /\ pc[r] = "idle" /\ pc'[r] = "done"
    ]_vars

\* a refresh cancelled after the generator's text was parsed, the setup it
\* was to replace still as the earlier generation stored it
C4_Witness ==
  \E r, q \in Reqs :
    /\ rq[r].kind = "refresh" /\ pc[r] = "cancelled" /\ setup_data[r] = FullPayload
    /\ rq[q].kind = "generate" /\ pc[q] = "done"
    /\ Len(setups) = 1
    /\ setups[1].instructions = FallbackData(<<"P">>).instructions

(***************************************************************************)
(* Properties of the quota.                                                *)
(***************************************************************************)
\* C5: in every reachable state each usage counter is at most the limit of
\* the account's current plan, unless that limit is -1.
C5_UsedWithinLimit ==
  sub.exists =>
    /\ (generation_limit(sub) = -1 \/ sub.generations_used <= generation_limit(sub))
    /\ (learning_limit(sub) = -1 \/ sub.learning_used <= learning_limit(sub))

\* C6 (as stated): the check allows exactly when the plan's limit for the kind
\* is -1 or the kind's counter is strictly below it; nothing else matters.
C6_AllowedIffBelowLimit ==
  gate_out.kind # NotRun =>
    (gate_out.allowed <=> (gate_out.limit = -1 \/ gate_out.used < gate_out.limit))

\* C6 (amended): the check allows exactly when the plan's limit for the kind
\* is -1, or the subscription status is active or trialing and the kind's
\* counter is strictly below the limit; the limits are those of PLAN_LIMITS.
C6_AllowedIffActiveAndBelowLimit ==
  gate_out.kind # NotRun =>
    LET limit == IF gate_out.kind = "generation"
                 THEN (IF sub.plan \in {"pro", "admin"} THEN -1
                       ELSE IF sub.plan = "basic" THEN 15 ELSE 2)
                 ELSE (IF sub.plan \in {"pro", "admin"} THEN -1
                       ELSE IF sub.plan = "basic" THEN 20 ELSE 3)
        used  == IF gate_out.kind = "generation"
                 THEN sub.generations_used ELSE sub.learning_used
    IN  gate_out.allowed <=>
          (limit = -1 \/ (sub.status \in {"active", "trialing"} /\ used < limit))

\* the boundary: a free plan with all three learnings used is denied
C6_Witness ==
  /\ gate_out.kind = "learning" /\ ~gate_out.allowed
  /\ sub.plan = "free" /\ sub.status = "active" /\ sub.learning_used = 3

(***************************************************************************)
(* Properties of the match check.                                          *)
(***************************************************************************)
Checked == check_out.match_quality # NotRun

\* the setups the check may select from: the requester's, at the venue, rated >= 4
Eligible ==
  {i \in DOMAIN setups :
     /\ setups[i].location_id = check_request.location_id
     /\ setups[i].user_id = CurrentUser
     /\ setups[i].rating \in {4, 5}}

QualityOf(i) == CalculatePerformerMatch(check_request.performers, setups[i].performers)[1]

SelectedCandidate ==
  BestMatch(setups, check_request, MatchCandidates(setups, check_request), NoBest)

\* C10: a match is reported only with a selected candidate whose quality is
\* exact or similar; when the selected candidate is partial or none, or there
\* is no candidate, the answer is no match and carries no source setup.
C10_OnlyExactOrSimilarReported ==
  Checked =>
    /\ check_out.has_match =>
         /\ check_out.matching_setup \in Eligible
         /\ check_out.matching_setup = SelectedCandidate.match
         /\ QualityOf(check_out.matching_setup) \in {"exact", "similar"}
         /\ check_out.match_quality = QualityOf(check_out.matching_setup)
    /\ (Eligible = {} \/ SelectedCandidate.quality \in {"partial", "none"})
         => (~check_out.has_match /\ check_out.matching_setup = 0
             /\ check_out.match_quality = "None")

\* the best candidate is only a partial match: nothing is reported
C10_Witness ==
  /\ Checked /\ ~check_out.has_match
  /\ Eligible # {}
  /\ SelectedCandidate.quality = "partial"

(***************************************************************************)
(* Properties of the request handlers.                                     *)
(***************************************************************************)
\* C11: a generation request whose venue is not stored or not owned by the
\* requester ends as not-found straight from its start, in a step that
\* changes no setup, profile or subscription field, and it never reaches the
\* generator call or any later stage.
C11_NotFoundBeforeSideEffects ==
  [][ \A r \in Reqs :
        /\ (rq'[r].kind = "generate" /\ ~OwnsLocation(rq'[r].location_id))
             => pc'[r] = "not_found"
        /\ (rq'[r].kind = "generate" /\ pc'[r] = "not_found" /\ pc[r] # "not_found")
             => /\ pc[r] = "idle"
                /\ ~OwnsLocation(rq'[r].location_id)
                /\ setups' = setups /\ profiles' = profiles /\ sub' = sub
                /\ setup_data' = setup_data
    ]_vars

\* a request for a venue that is not stored, and one for another user's
\* venue, both ended as not-found with nothing stored
C11_Witness ==
  \E r, q \in Reqs :
    /\ rq[r].kind = "generate" /\ rq[r].location_id = "L3" /\ pc[r] = "not_found"
    /\ rq[q].kind = "generate" /\ rq[q].location_id = "L2" /\ pc[q] = "not_found"
    /\ setups = <<>> /\ sub = NoSubscription

\* C12: the step in which the match check answers, with a match or without,
\* changes no stored setup, profile or subscription field (so no usage
\* counter) and starts no generator call: no request changes its stage.
C12_MatchCheckChangesNothing ==
  [][ check_out' # check_out
        => /\ setups' = setups /\ profiles' = profiles /\ sub' = sub
           /\ pc' = pc /\ rq' = rq /\ setup_data' = setup_data
           /\ check_request' = check_request
    ]_vars

\* a check that reported a match over a store of two setups
C12_Witness ==
  /\ Checked /\ check_out.has_match /\ check_out.matching_setup \in DOMAIN setups
  /\ Len(setups) = 2

\* C13: every generation or refresh that obtained a generator result and
\* persisted it has raised generations_used by exactly one, and nothing else
\* raises it: the counter equals the number of requests that persisted.
C13_UsageRecordedAfterPersist ==
  sub.generations_used =
    Cardinality({r \in Reqs : rq[r].kind \in Generation /\ pc[r] = "done"})

\* C14: the step that accepts reuse of a setup of the requester appends
\* exactly one setup whose four settings fields equal the source's and whose
\* instructions are the reuse tag followed by the source's instructions; it
\* leaves every stored setup (the source included) and the subscription as
\* they were, and the request never passes through the generator call.
C14_ReuseClonesSettings ==
  [][ \A r \in Reqs :
        (rq'[r].kind = "reuse" /\ pc[r] # "done" /\ pc'[r] = "done")
          => LET source == setups[rq'[r].setup_id]
                 new    == setups'[Len(setups')]
             IN  /\ pc[r] = "idle"
                 /\ Len(setups') = Len(setups) + 1
                 /\ \A i \in DOMAIN setups : setups'[i] = setups[i]
                 /\ source.user_id = CurrentUser
                 /\ new.channel_config = source.channel_config
                 /\ new.eq_settings = source.eq_settings
                 /\ new.compression_settings = source.compression_settings
                 /\ new.fx_settings = source.fx_settings
                 /\ Len(new.instructions) >= 2
                 /\ new.instructions[1] = "Reused from"
                 /\ SubSeq(new.instructions, 3, Len(new.instructions))
                      = (IF source.instructions = NoneText THEN <<>> ELSE source.instructions)
                 /\ sub' = sub /\ profiles' = profiles
                 /\ setup_data' = setup_data
                 /\ \A q \in Reqs \ {r} : pc'[q] = pc[q]
    ]_vars

\* a reuse of a setup generated from a structured answer
C14_Witness ==
  \E r \in Reqs :
    /\ rq[r].kind = "reuse" /\ pc[r] = "done" /\ rq[r].setup_id = 1
    /\ Len(setups) = 2
    /\ setups[1].channel_config = FullPayload["channel_config"]
    /\ setups[2].channel_config = setups[1].channel_config
    /\ setups[2].instructions = <<"Reused from", "gala">> \o setups[1].instructions

(***************************************************************************)
(* Properties of the webhook handlers.                                     *)
(***************************************************************************)
\* a step in which a webhook event of this kind was handled
Handled(kind) ==
  /\ billing_event'.kind = kind
  /\ billing_event' # billing_event \/ sub' # sub
  /\ pc' = pc

\* C15: handling a renewal (invoice.paid) leaves generations_used and
\* learning_used at 0 and period_start / period_end at the values the event
\* carries; handling a cancellation (customer.subscription.deleted) leaves the
\* plan at free and both counters at the values they had.
C15_RenewalResetsCancellationKeeps ==
  [][ /\ Handled("invoice.paid")
           => /\ sub'.generations_used = 0 /\ sub'.learning_used = 0
              /\ billing_event'.period_start # 0
                   => sub'.period_start = billing_event'.period_start
              /\ billing_event'.period_end # 0
                   => sub'.period_end = billing_event'.period_end
      /\ Handled("customer.subscription.deleted")
           => /\ sub'.plan = "free"
              /\ sub'.generations_used = sub.generations_used
              /\ sub'.learning_used = sub.learning_used
    ]_vars

\* a cancelled account that keeps the learnings it used, in the period a
\* subscription update had set
C15_Witness ==
  /\ billing_event.kind = "customer.subscription.deleted"
  /\ sub.plan = "free" /\ sub.status = "canceled"
  /\ sub.learning_used = MaxUsed
  /\ sub.period_start = 1 /\ sub.period_end = 2

(***************************************************************************)
(* Properties of the inventory.                                            *)
(***************************************************************************)
\* C16: whenever the gear list is reported, quantity_available of every item
\* is the owned quantity less the quantity on unreturned loans, or 0 when
\* that difference is negative; it is never negative.
C16_AvailabilityClamped ==
  [][ gear_out' # gear_out
        => \A g \in DOMAIN gear_out'.quantity_available :
             /\ gear_out'.quantity_available[g] >= 0
             /\ gear_out'.quantity_available[g]
                  = Max(0, gear'[g] - LoanedQty(loans', g))
    ]_vars

\* C17: the step that commits a refresh leaves the setup's venue, owner,
\* event name, event date, performers, notes, rating and sharing flags as
\* they were and stores the generator's channel_config, eq_settings,
\* compression_settings, fx_settings and (after the refresh marker)
\* instructions; it touches no other setup. Every other step of a refresh
\* request, a failure or cancellation included, changes no setup.
C17_RefreshKeepsEventMetadata ==
  [][ \A r \in Reqs :
        (rq[r].kind = "refresh" /\ pc'[r] # pc[r])
          => IF pc[r] = "parsed" /\ pc'[r] = "done"
             THEN LET id   == rq[r].setup_id
                      old  == setups[id]
                      new  == setups'[id]
                      data == setup_data[r]
                  IN  /\ DOMAIN setups' = DOMAIN setups
                      /\ \A i \in DOMAIN setups \ {id} : setups'[i] = setups[i]
                      /\ new.location_id = old.location_id
                      /\ new.user_id = old.user_id
                      /\ new.event_name = old.event_name
                      /\ new.event_date = old.event_date
                      /\ new.performers = old.performers
                      /\ new.notes = old.notes /\ new.rating = old.rating
                      /\ new.is_shared = old.is_shared
                      /\ new.shared_full_access = old.shared_full_access
                      /\ new.channel_config = Get(data, "channel_config")
                      /\ new.eq_settings = Get(data, "eq_settings")
                      /\ new.compression_settings = Get(data, "compression_settings")
                      /\ new.fx_settings = Get(data, "fx_settings")
                      /\ new.instructions =
                           <<"Refreshed on">> \o (IF "instructions" \in DOMAIN data
                                                  THEN data["instructions"] ELSE <<>>)
             ELSE setups' = setups
    ]_vars

\* a setup generated for the gala from a structured answer and refreshed
\* from a prose answer: the event is kept, the settings are gone
C17_Witness ==
  \E r, q \in Reqs :
    /\ rq[q].kind = "generate" /\ pc[q] = "done" /\ setup_data[q] = FullPayload
    /\ rq[q].event.event_name = "gala"
    /\ rq[r].kind = "refresh" /\ pc[r] = "done" /\ rq[r].setup_id = 1
    /\ Len(setups) = 1
    /\ setups[1].event_name = "gala" /\ setups[1].event_date = "d1"
    /\ setups[1].performers = rq[q].performers
    /\ setups[1].channel_config = <<"{}">>
    /\ setups[1].instructions = <<"Refreshed on", "P">>

(***************************************************************************)
(* Properties of the update handler.                                       *)
(***************************************************************************)
\* C18: every stored rating is absent (0) or one of 1..5, and a step that
\* handles an update whose rating is an integer outside 1..5 answers with a
\* rejection and changes no setup, whatever else the request carries.
C18_RatingWithinRange ==
  /\ [](\A i \in DOMAIN setups : setups[i].rating \in 0..5)
  /\ [][ ( /\ update_request'.rating.given = "value"
           /\ update_request'.rating.value \notin 1..5
           /\ update_out' # NotRun )
          => (update_out' # "200" /\ setups' = setups)
       ]_vars

\* the owner's setup, rated 5 by an earlier update, after an update with
\* rating 6 and notes was answered 400: rating and notes are as before
C18_Witness ==
  /\ update_out = "400"
  /\ update_request.rating.value = 6 /\ update_request.notes = "n1"
  /\ update_request.setup_id \in DOMAIN setups
  /\ setups[update_request.setup_id].user_id = CurrentUser
  /\ setups[update_request.setup_id].rating = 5
  /\ setups[update_request.setup_id].notes = "None"

\* the adjusted value of stored setup i for the request
AdjustedOf(i) ==
  LET score == CalculatePerformerMatch(check_request.performers, setups[i].performers)[2]
      rating == IF setups[i].rating = 0 THEN 3 ELSE setups[i].rating
  IN  Frac(score.num * (80 + 4 * rating), score.den * 100)

\* i comes before j in (rating descending, created_at descending) order
TakenBefore(i, j) ==
  \/ setups[i].rating > setups[j].rating
  \/ setups[i].rating = setups[j].rating /\ i > j

\* i has the maximum adjusted value and is the earliest candidate that has it
FirstWithMaximum(i) ==
  /\ i \in Eligible
  /\ \A j \in Eligible :
       /\ FracLe(AdjustedOf(j), AdjustedOf(i))
       /\ (j # i /\ FracEq(AdjustedOf(j), AdjustedOf(i))) => TakenBefore(i, j)

\* C19 (as stated): with candidates, the check selects the earliest candidate
\* in (rating descending, created_at descending) order whose adjusted value
\* is the maximum over the candidates.
C19_SelectsFirstMaximum ==
  (Checked /\ Eligible # {}) => FirstWithMaximum(SelectedCandidate.match)

\* C19 (amended): when the maximum adjusted value is above 0 the check selects
\* the earliest candidate in that order that has it; when every candidate's
\* adjusted value is 0 it selects no candidate.
C19_SelectsFirstPositiveMaximum ==
  (Checked /\ Eligible # {}) =>
    IF \E j \in Eligible : FracLt(Frac(0, 1), AdjustedOf(j))
    THEN FirstWithMaximum(SelectedCandidate.match)
    ELSE SelectedCandidate.match = 0

\* two setups with the same rating and the same lineup as the request: the
\* one created later is taken first and is the one reported
C19_Witness ==
  /\ Checked /\ check_out.has_match
  /\ Eligible = {1, 2}
  /\ setups[1].rating = setups[2].rating
  /\ FracEq(AdjustedOf(1), AdjustedOf(2))
  /\ check_out.matching_setup = 2

(***************************************************************************)
(* Properties of the rating boost.                                         *)
(***************************************************************************)
\* C20 (as stated): for every quality and score the classifier returns, the
\* adjusted value with rating 5 is strictly above the one with rating 3.
C20_RatingFiveAboveThree ==
  Classified => FracLt(AdjustedScore(match_out[2], 3), AdjustedScore(match_out[2], 5))

\* C20 (amended): for every score above 0 the classifier returns, the adjusted
\* value with rating 5 is strictly above the one with rating 3; for the score
\* 0 of quality none both adjusted values are 0.
C20_RatingFiveAboveThreeWhenPositive ==
  Classified =>
    IF FracLt(Frac(0, 1), match_out[2])
    THEN FracLt(AdjustedScore(match_out[2], 3), AdjustedScore(match_out[2], 5))
    ELSE /\ match_out[1] = "none"
         /\ FracEq(AdjustedScore(match_out[2], 3), Frac(0, 1))
         /\ FracEq(AdjustedScore(match_out[2], 5), Frac(0, 1))

\* a similar match: 0.8 with rating 5 against 0.736 with rating 3
C20_Witness ==
  /\ Classified /\ match_out[1] = "similar"
  /\ FracEq(AdjustedScore(match_out[2], 5), Frac(8, 10))
  /\ FracEq(AdjustedScore(match_out[2], 3), Frac(736, 1000))

(***************************************************************************)
(* Properties of the score range.                                          *)
(***************************************************************************)
InUnitInterval(x) == FracLe(Frac(0, 1), x) /\ FracLe(x, Frac(1, 1))

\* C21: the score the classifier returns and its adjusted value for every
\* rating 1..5 and for an absent rating (0) lie in [0, 1].
C21_ScoresInUnitInterval ==
  Classified =>
    /\ InUnitInterval(match_out[2])
    /\ \A rating \in 0..5 : InUnitInterval(AdjustedScore(match_out[2], rating))

\* the upper end is reached: an exact match with rating 5
C21_Witness ==
  /\ Classified /\ match_out[1] = "exact"
  /\ FracEq(AdjustedScore(match_out[2], 5), Frac(1, 1))
  /\ FracEq(AdjustedScore(match_out[2], 1), Frac(84, 100))

-----------------------------------------------------------------------------
\* Properties of the extraction order

\* the first position at or after from where pat occurs in s, 0 when none
IndexFrom(s, pat, from) ==
  LET hits == {i \in from..(Len(s) - Len(pat) + 1) : SubSeq(s, i, i + Len(pat) - 1) = pat}
  IN  IF hits = {} THEN 0 ELSE CHOOSE i \in hits : \A k \in hits : i <= k

\* the text between the first fence that opens with `opening` and the next
\* fence after it
BlockAfter(resp, opening) ==
  IF ~Contains(resp, opening) THEN [found |-> FALSE, text |-> <<>>]
  ELSE LET start == Index(resp, opening) + Len(opening)
           end   == IndexFrom(resp, <<"F">>, start)
       IN  IF end = 0 THEN [found |-> FALSE, text |-> <<>>]
           ELSE [found |-> TRUE, text |-> Strip(SubSeq(resp, start, end - 1))]

LabeledBlock(resp) == BlockAfter(resp, <<"F", "J">>)

AnyBlock(resp) == BlockAfter(resp, <<"F">>)

\* C22: when the response holds a labeled fenced block, the text handed to
\* the parser is what lies between the first labeled opening fence and the
\* next fence after it, whatever follows that fence; a block that is an
\* object therefore gives the structured result.
C22_LabeledBlockEndsAtNextFence ==
  (Normalized /\ LabeledBlock(response).found) =>
    /\ ExtractJsonText(response) = LabeledBlock(response).text
    /\ JsonLoads(LabeledBlock(response).text).kind = "dict"
         => /\ norm_out.path = "parsed"
            /\ norm_out.data = JsonLoads(LabeledBlock(response).text).value

\* the three extractions in the order they are tried
Extractions(resp) ==
  <<LabeledBlock(resp), AnyBlock(resp), [found |-> TRUE, text |-> resp]>>

ExtractionParses(e) == e.found /\ JsonLoads(e.text).kind # "error"

\* C23: the first extraction that parses decides the result, and the result
\* is degraded only when none of the three parses; in particular a response
\* that parses as it stands is never degraded.
C23_FirstParsingExtractionWins ==
  Normalized =>
    /\ norm_out.path = "fallback"
         => \A i \in 1..3 : ~ExtractionParses(Extractions(response)[i])
    /\ \A i \in 1..3 :
         ( /\ ExtractionParses(Extractions(response)[i])
           /\ \A k \in 1..(i - 1) : ~ExtractionParses(Extractions(response)[k])
           /\ JsonLoads(Extractions(response)[i].text).kind = "dict" )
         => /\ norm_out.path = "parsed"
            /\ norm_out.data = JsonLoads(Extractions(response)[i].text).value
-----------------------------------------------------------------------------
\* Properties of a payload with missing keys

\* C24: a generation whose parsed payload lacks some of the keys is a
\* structured result; the request leaves the parsed position only by
\* committing the new setup (or by being cancelled), never by an error, and
\* the committed row holds the payload's value for every key present and
\* None for every key missing.
C24_MissingKeysPersisted ==
  [][ \A r \in Reqs :
        ( /\ rq[r].kind = "generate" /\ pc[r] = "parsed" /\ pc'[r] # pc[r]
          /\ ~(PersistedKeys \subseteq DOMAIN setup_data[r]) )
        => /\ pc'[r] \in {"done", "cancelled"}
           /\ pc'[r] = "done"
                => /\ Len(setups') = Len(setups) + 1
                   /\ \A k \in PersistedKeys :
                        setups'[Len(setups')][k] =
                          IF k \in DOMAIN setup_data[r] THEN setup_data[r][k] ELSE NoneText
    ]_vars

\* two committed generations: one payload had no key at all, the other the
\* instructions only
C24_Witness ==
  \E r, q \in Reqs :
    /\ rq[r].kind = "generate" /\ pc[r] = "done" /\ setup_data[r] = EmptyPayload
    /\ rq[q].kind = "generate" /\ pc[q] = "done" /\ DOMAIN setup_data[q] = {"instructions"}
    /\ Len(setups) = 2
    /\ \E i, j \in 1..2 :
         /\ setups[i].instructions = NoneText /\ setups[i].channel_config = NoneText
         /\ setups[j].instructions = <<"P">> /\ setups[j].eq_settings = NoneText
(***************************************************************************)
(* routers/setups.py and services/setup_generator.py: the rated history    *)
(* handed to the generator, with the requests of several users             *)
(***************************************************************************)
Users == {"u1", "u2"}

\* lines 256 and 485: .limit(5)
HistoryQueryLimit == 5

\* ratings a rating update may carry, one for each side of the split
HistoryRatings == {3, 4}

\* the lineup of every request of this part
HistoryLineup == <<[type |-> "vocal", count |-> 1]>>

\* a performer row that is not a dict (a string, a number, a list)
MalformedRow == [type |-> "not a dict", count |-> 0]

\* the query of refresh_setup without the condition of line 484
PastSetupsCurrentKept(store, location_id, exclude) ==
  LET ids == {i \in DOMAIN store :
                /\ store[i].location_id = location_id
                /\ store[i].rating # 0}
      sorted == SortedIds(store, ids)
  IN  SubSeq(sorted, 1, Min(HistoryQueryLimit, Len(sorted)))

\* generate_setup lines 252-258 (exclude = 0) and refresh_setup lines
\* 479-487: the rated setups at the venue, of any owner, best rated and
\* newest first
PastSetups(store, location_id, exclude) ==
  LET ids == {i \in DOMAIN store :
                /\ store[i].location_id = location_id
                /\ store[i].rating # 0
                /\ i # exclude}
      sorted == SortedIds(store, ids)
  IN  SubSeq(sorted, 1, Min(HistoryQueryLimit, Len(sorted)))

\* setup_generator.py line 455: s.rating and s.rating >= 4
HighRated(store, past_setups) ==
  SelectSeq(past_setups, LAMBDA i : store[i].rating # 0 /\ store[i].rating >= 4)

\* line 456 with the limit one lower
LowerRatedBelowThree(store, past_setups) ==
  SelectSeq(past_setups, LAMBDA i : store[i].rating # 0 /\ store[i].rating < 3)

\* setup_generator.py line 456: s.rating and s.rating < 4
LowerRated(store, past_setups) ==
  SelectSeq(past_setups, LAMBDA i : store[i].rating # 0 /\ store[i].rating < 4)

\* setup_generator.py lines 449-518.  p.get('type', '') at line 516 is
\* evaluated for every row of every high rated setup; on a row that is not
\* a dict it raises AttributeError, which nothing in _build_user_prompt or
\* in generate (line 556) catches.  The rows of a lower rated setup are
\* only written out with json.dumps (line 501).
BuildUserPrompt(store, past_setups) ==
  LET high_rated  == HighRated(store, past_setups)
      lower_rated == LowerRated(store, past_setups)
  IN  [path |-> IF \E k \in 1..Len(high_rated) :
                     \E j \in 1..Len(store[high_rated[k]].performers) :
                       store[high_rated[k]].performers[j] = MalformedRow
                THEN "raise" ELSE "built",
       high_rated |-> high_rated, lower_rated |-> lower_rated]

HistoryRequest(loc) ==
  [location_id |-> loc, performers |-> HistoryLineup, event |-> NoEvent]

\* what a generation or refresh request of user u recorded
HandedHistory(kind, u, loc, id, past_setups, prompt, status) ==
  [kind |-> kind, user |-> u, location_id |-> loc, setup_id |-> id,
   past_setups |-> past_setups, high_rated |-> prompt.high_rated,
   lower_rated |-> prompt.lower_rated, prompt |-> prompt.path, status |-> status]

\* generate_setup lines 234-320 for the requester u: 404 unless u owns the
\* venue; the history query; generator.generate builds the prompt, calls
\* Claude and parses; the row is committed.  Every exception is HTTP 500.
GenerateSetupBy(u) ==
  /\ \E loc \in Locations :
       IF LocationOwner[loc] # u
       THEN /\ history_out' = [HistoryNotRun EXCEPT !.kind = "generate", !.user = u,
                                 !.location_id = loc, !.status = "404"]
            /\ UNCHANGED setups
       ELSE LET past_setups == PastSetups(setups, loc, 0)
                prompt      == BuildUserPrompt(setups, past_setups)
                handed(status) ==
                  HandedHistory("generate", u, loc, 0, past_setups, prompt, status)
            IN  IF prompt.path = "raise"
                THEN /\ history_out' = handed("500")
                     /\ UNCHANGED setups
                ELSE \/ /\ history_out' = handed("500")
                        /\ UNCHANGED setups
                     \/ /\ Len(setups) < MaxSetups
                        /\ history_out' = handed("201")
                        /\ setups' = Append(setups,
                             [NewSetup(HistoryRequest(loc), FullPayload) EXCEPT !.user_id = u])
  /\ UNCHANGED <<matchVars, normVars, gateVars, billVars, gearVars, updVars, checkVars, profiles, sub, reqVars>>

\* reuse_setup lines 189-221 for the requester u: the past setup is looked
\* up by id and owner, the venue of the request is not looked up
ReuseSetupBy(u) ==
  /\ Len(setups) < MaxSetups
  /\ \E id \in DOMAIN setups, loc \in Locations :
       /\ setups[id].user_id = u
       /\ setups' = Append(setups,
            [ReusedSetup(setups[id], HistoryRequest(loc)) EXCEPT !.user_id = u])
  /\ history_out' = HistoryNotRun
  /\ UNCHANGED <<matchVars, normVars, gateVars, billVars, gearVars, updVars, checkVars, profiles, sub, reqVars>>

\* refresh_setup lines 448-541 for the requester u
RefreshSetupBy(u) ==
  /\ \E id \in DOMAIN setups :
       LET setup == setups[id]
       IN  IF setup.user_id # u \/ LocationOwner[setup.location_id] # u
           THEN /\ history_out' = [HistoryNotRun EXCEPT !.kind = "refresh", !.user = u,
                                     !.location_id = setup.location_id,
                                     !.setup_id = id, !.status = "404"]
                /\ UNCHANGED setups
           ELSE LET past_setups == PastSetups(setups, setup.location_id, id)
                    prompt      == BuildUserPrompt(setups, past_setups)
                    handed(status) ==
                      HandedHistory("refresh", u, setup.location_id, id, past_setups,
                                    prompt, status)
                IN  IF prompt.path = "raise"
                    THEN /\ history_out' = handed("500")
                         /\ UNCHANGED setups
                    ELSE \/ /\ history_out' = handed("500")
                            /\ UNCHANGED setups
                         \/ /\ history_out' = handed("200")
                            /\ setups' = [setups EXCEPT ![id] = RefreshedSetup(@, FullPayload)]
  /\ UNCHANGED <<matchVars, normVars, gateVars, billVars, gearVars, updVars, checkVars, profiles, sub, reqVars>>

\* update_setup lines 553-593 for the requester u (not an admin), the body
\* carrying a rating: the owner, or anyone when the setup is shared with
\* full access
RateSetupBy(u) ==
  /\ \E id \in DOMAIN setups, rating \in HistoryRatings :
       LET setup == setups[id]
           body  == [NoUpdate EXCEPT !.setup_id = id,
                                     !.rating = [given |-> "value", value |-> rating]]
       IN  /\ setup.user_id = u \/ (setup.is_shared /\ setup.shared_full_access)
           /\ RatingInRange(rating)
           /\ setups' = [setups EXCEPT ![id] = UpdatedSetup(@, body)]
  /\ history_out' = HistoryNotRun
  /\ UNCHANGED <<matchVars, normVars, gateVars, billVars, gearVars, updVars, checkVars, profiles, sub, reqVars>>

NextHistory ==
  \E u \in Users :
    \/ GenerateSetupBy(u)
    \/ ReuseSetupBy(u)
    \/ RefreshSetupBy(u)
    \/ RateSetupBy(u)

SpecHistory == Init /\ [][NextHistory]_vars
\* stored setups of the requester at the venue L1, rated or not, some with a
\* performer row that is not a dict
AggregateSetups ==
  { [NewSetup(HistoryRequest("L1"), FullPayload)
       EXCEPT !.performers = perf, !.rating = rating] :
      perf \in {HistoryLineup, <<MalformedRow>>, HistoryLineup \o <<MalformedRow>>},
      rating \in {0} \cup HistoryRatings }

InitAggregate ==
  /\ MatchIdle
  /\ NormIdle
  /\ GateIdle
  /\ BillIdle
  /\ GearIdle
  /\ UpdateIdle
  /\ CheckIdle
  /\ HistIdle
  /\ setups \in SeqsUpTo(AggregateSetups, MaxStored)
  /\ profiles = {}
  /\ sub = NoSubscription
  /\ NoRequests

NextAggregate ==
  \/ GenerateSetupBy(CurrentUser)
  \/ RefreshSetupBy(CurrentUser)

SpecAggregate == InitAggregate /\ [][NextAggregate]_vars

-----------------------------------------------------------------------------
\* Properties of the rated history

\* a generation or refresh request got as far as handing a history on
Handed == history_out.prompt # NotRun

HandedIds == {history_out.past_setups[k] : k \in 1..Len(history_out.past_setups)}

Elements(seq) == {seq[k] : k \in 1..Len(seq)}

\* C25: the rated history a refresh of setup S hands to the generator never
\* contains S.
C25_RefreshHistoryExcludesItself ==
  (Handed /\ history_out.kind = "refresh")
    => history_out.setup_id \notin HandedIds

\* a rated setup refreshed with the other rated setup of the venue as history
C25_Witness ==
  /\ Handed /\ history_out.kind = "refresh" /\ history_out.status = "200"
  /\ setups[history_out.setup_id].rating # 0
  /\ HandedIds # {}

\* C26: every setup of the handed history is in exactly one of the two
\* subsets: the successful ones when its rating is 4 or more, the ones that
\* needed improvement when it is less than 4.
C26_EveryRatedSetupInOneSubset ==
  (Handed /\ history_out.prompt = "built") =>
    \A id \in HandedIds :
      /\ id \in Elements(history_out.high_rated) <=> setups[id].rating >= 4
      /\ id \in Elements(history_out.lower_rated) <=> setups[id].rating < 4
      /\ ~(id \in Elements(history_out.high_rated) /\ id \in Elements(history_out.lower_rated))

\* a history of two setups, one in each subset, handed to a generation whose
\* prompt was built
C26_Witness ==
  /\ Handed /\ history_out.prompt = "built"
  /\ Len(history_out.past_setups) = 2
  /\ Len(history_out.high_rated) = 1
  /\ Len(history_out.lower_rated) = 1

C28_HistoryOnlyOwnSetups ==
  (Handed /\ LocationOwner[history_out.location_id] = history_out.user)
    => \A id \in HandedIds : setups[id].user_id = history_out.user
-----------------------------------------------------------------------------
\* Properties of concurrent learning requests

\* the learning requests that completed: record_learning has returned
CompletedLearnings == {r \in Reqs : rq[r].kind = "learn" /\ pc[r] = "done"}

\* C29: learning_used, 0 when the account's row is created, is the number of
\* learning requests that completed, however the requests interleave.
C29_EveryCompletedLearningCounted ==
  sub.exists => sub.learning_used = Cardinality(CompletedLearnings)
-----------------------------------------------------------------------------
\* Properties of the selection across quality classes

ClassRank(quality) ==
  CASE quality = "exact" -> 3
    [] quality = "similar" -> 2
    [] quality = "partial" -> 1
    [] OTHER -> 0

\* the highest class among the candidates of the check, none when there are
\* no candidates
HighestClassRank ==
  IF Eligible = {} THEN 0
  ELSE LET best == CHOOSE i \in Eligible :
                     \A j \in Eligible : ClassRank(QualityOf(j)) <= ClassRank(QualityOf(i))
       IN  ClassRank(QualityOf(best))

\* C30: the candidate the check selects is of the highest quality class
\* present among the candidates (all rated 4 or 5), and a match is reported
\* exactly when some candidate is exact or similar, with that class.
C30_SelectsHighestClass ==
  Checked =>
    /\ ClassRank(SelectedCandidate.quality) = HighestClassRank
    /\ check_out.has_match <=> \E i \in Eligible : QualityOf(i) \in {"exact", "similar"}
    /\ check_out.has_match => ClassRank(check_out.match_quality) = HighestClassRank

\* an exact candidate rated 4 is selected over a similar one rated 5 that
\* comes first in the order of the query
C30_Witness ==
  /\ Checked /\ check_out.has_match /\ check_out.match_quality = "exact"
  /\ setups[check_out.matching_setup].rating = 4
  /\ \E i \in Eligible : QualityOf(i) = "similar" /\ setups[i].rating = 5
====
